---------------------------- MODULE Spec2Model ----------------------------
(***************************************************************************)
(* A model of translations/utils.py (django-translations): the language    *)
(* normalizer, the relations hierarchy builder, the instance-groups walker *)
(* and the apply/update orchestrators over the Translation table.          *)
(*                                                                         *)
(* Python strings are modelled as sequences of one-character strings, so   *)
(* that str.split is computed and not assumed.                             *)
(***************************************************************************)
EXTENDS Integers, Sequences, FiniteSets, Bags, TLC

VARIABLES
    LANGUAGES,   \* settings.LANGUAGES: the sequence of supported codes
    store,       \* the Translation table: record -> number of rows
    fields,      \* in-memory instances: instance -> field -> value
    prefetched,  \* instance -> set of relations in _prefetched_objects_cache
    calls,       \* concurrent callers of update_translations
    finished,    \* callers of update_translations, in order of completion
    last         \* the last call: its arguments, outcome and pre-state

vars == <<LANGUAGES, store, fields, prefetched, calls, finished, last>>

None == "None"

(***************************************************************************)
(* Strings.                                                                *)
(***************************************************************************)

\* All sequences over S of length lo..hi.
StringsOver(S, lo, hi) == UNION {[1..n -> S] : n \in lo..hi}

\* Sequences over S of length 0..n.
ListsOver(S, n) == UNION {[1..k -> S] : k \in 0..n}

\* s.find(sep): the first index at which sep occurs in s, 0 when none.
Find(s, sep) ==
    LET hits == {i \in 1..(Len(s) - Len(sep) + 1) :
                    SubSeq(s, i, i + Len(sep) - 1) = sep}
    IN  IF hits = {} THEN 0 ELSE CHOOSE i \in hits : \A j \in hits : i <= j

\* s.split(sep) for a non-empty separator.
RECURSIVE split(_, _)
split(s, sep) ==
    LET i == Find(s, sep)
    IN  IF i = 0 THEN <<s>>
        ELSE <<SubSeq(s, 1, i - 1)>> \o split(SubSeq(s, i + Len(sep), Len(s)), sep)

\* sep.join(parts)
RECURSIVE join(_, _)
join(sep, parts) ==
    IF Len(parts) = 0 THEN <<>>
    ELSE IF Len(parts) = 1 THEN parts[1]
    ELSE parts[1] \o sep \o join(sep, Tail(parts))

LOOKUP_SEP == <<"_", "_">>

Range(s) == {s[i] : i \in DOMAIN s}

(***************************************************************************)
(* _get_standard_language                                                  *)
(***************************************************************************)

\* get_language(): the active language of the thread (the docs activate 'en').
get_language == <<"e", "n">>

\* A faulty scan, for comparison: it stops at the base code too.
RECURSIVE ScanLanguagesStopAtCode(_, _, _, _)
ScanLanguagesStopAtCode(lang, code, i, code_exists) ==
    IF i > Len(LANGUAGES) THEN <<FALSE, code_exists>>
    ELSE IF lang = LANGUAGES[i] THEN <<TRUE, code_exists>>
    ELSE IF code = LANGUAGES[i] THEN <<FALSE, TRUE>>
    ELSE ScanLanguagesStopAtCode(lang, code, i + 1, code_exists)

\* The loop of lines 138-143 from position i on: <<lang_exists, code_exists>>.
RECURSIVE ScanLanguages(_, _, _, _)
ScanLanguages(lang, code, i, code_exists) ==
    IF i > Len(LANGUAGES) THEN <<FALSE, code_exists>>
    ELSE IF lang = LANGUAGES[i] THEN <<TRUE, code_exists>>
    ELSE ScanLanguages(lang, code, i + 1, code_exists \/ code = LANGUAGES[i])

\* A lang that is falsy (None or '') is the empty sequence here.
_get_standard_language(lang_arg) ==
    LET lang == IF lang_arg = <<>> THEN get_language ELSE lang_arg
        code == split(lang, <<"-">>)[1]
        found == ScanLanguages(lang, code, 1, FALSE)
    IN  IF found[1] THEN [err |-> "", value |-> lang]
        ELSE IF found[2] THEN [err |-> "", value |-> code]
        ELSE [err |-> "ValueError", value |-> <<>>]

(***************************************************************************)
(* _get_relations_hierarchy                                                *)
(*                                                                         *)
(* A dict is a sequence of <<key, value>> pairs in insertion order; a      *)
(* hierarchy node is [included, relations].                                *)
(***************************************************************************)

HasKey(dict, k) == \E i \in DOMAIN dict : dict[i][1] = k

Index(dict, k) == CHOOSE i \in DOMAIN dict : dict[i][1] = k

Get(dict, k) == dict[Index(dict, k)][2]

\* dict[k] = v
Put(dict, k, v) ==
    IF HasKey(dict, k)
    THEN [dict EXCEPT ![Index(dict, k)] = <<k, v>>]
    ELSE Append(dict, <<k, v>>)

\* dict.setdefault(k, v), as the dict it leaves
SetDefault(dict, k, v) == IF HasKey(dict, k) THEN dict ELSE Append(dict, <<k, v>>)

\* A faulty variant, for comparison: the node is reset each time its name is met.
RECURSIVE _fill_hierarchy_reset(_, _)
_fill_hierarchy_reset(hierarchy, relation_parts) ==
    LET root == relation_parts[1]
        nest == Tail(relation_parts)
        h1   == Put(hierarchy, root, [included |-> FALSE, relations |-> <<>>])
        node == Get(h1, root)
    IN  IF Len(nest) > 0
        THEN Put(h1, root, [node EXCEPT
                 !.relations = _fill_hierarchy_reset(node.relations, nest)])
        ELSE Put(h1, root, [node EXCEPT !.included = TRUE])

RECURSIVE _fill_hierarchy(_, _)
_fill_hierarchy(hierarchy, relation_parts) ==
    LET root == relation_parts[1]
        nest == Tail(relation_parts)
        h1   == SetDefault(hierarchy, root, [included |-> FALSE, relations |-> <<>>])
        node == Get(h1, root)
    IN  IF Len(nest) > 0
        THEN Put(h1, root, [node EXCEPT
                 !.relations = _fill_hierarchy(node.relations, nest)])
        ELSE Put(h1, root, [node EXCEPT !.included = TRUE])

RECURSIVE FillAll(_, _)
FillAll(hierarchy, relations) ==
    IF Len(relations) = 0 THEN hierarchy
    ELSE FillAll(_fill_hierarchy(hierarchy, split(relations[1], LOOKUP_SEP)),
                 Tail(relations))

_get_relations_hierarchy(relations) == FillAll(<<>>, relations)

(***************************************************************************)
(* The models and the in-memory instances the calls are made on: the       *)
(* sample application of the docstrings (Continent, Country), cut down.    *)
(***************************************************************************)

name      == <<"n", "a", "m", "e">>
denonym   == <<"d", "e", "n", "o", "n", "y", "m">>
countries == <<"c", "o", "u", "n", "t", "r", "i", "e", "s">>
continent == <<"c", "o", "n", "t", "i", "n", "e", "n", "t">>
bogus     == <<"b", "o", "g", "u", "s">>
cities    == <<"c", "i", "t", "i", "e", "s">>
country   == <<"c", "o", "u", "n", "t", "r", "y">>
flag      == <<"f", "l", "a", "g">>

en    == <<"e", "n">>
en_gb == <<"e", "n", "-", "g", "b">>
en_us == <<"e", "n", "-", "u", "s">>
de    == <<"d", "e">>

\* Continent, Country and City are Translatable, Flag is a plain model.
Models == {"Continent", "Country", "City", "Flag"}

\* issubclass(model, translations.models.Translatable)
Translatable(model) == model \in {"Continent", "Country", "City"}

\* model.get_translatable_field_names(); a model that is not Translatable
\* has no such method, and has no name and no denonym here.
get_translatable_field_names(model) ==
    IF model = "Continent" THEN <<name, denonym>>
    ELSE IF Translatable(model) THEN <<name>>
    ELSE <<>>

\* The relation fields of the models: a foreign key (Country.continent,
\* City.country, Country.flag, Flag.continent) and the reverse relation its
\* related_name declares on the target (Continent.countries,
\* Country.cities); Flag declares none.  related_model is the model the field
\* leads to, remote_name is field.remote_field.name.
RelationField(model, relation) ==
    IF model = "Continent" /\ relation = countries
    THEN [kind |-> "manager", related_model |-> "Country", remote_name |-> continent]
    ELSE IF model = "Country" /\ relation = continent
    THEN [kind |-> "foreignkey", related_model |-> "Continent", remote_name |-> countries]
    ELSE IF model = "Country" /\ relation = cities
    THEN [kind |-> "manager", related_model |-> "City", remote_name |-> country]
    ELSE IF model = "City" /\ relation = country
    THEN [kind |-> "foreignkey", related_model |-> "Country", remote_name |-> cities]
    ELSE IF model = "Country" /\ relation = flag
    THEN [kind |-> "foreignkey", related_model |-> "Flag", remote_name |-> country]
    ELSE IF model = "Flag" /\ relation = continent
    THEN [kind |-> "foreignkey", related_model |-> "Continent", remote_name |-> flag]
    ELSE [kind |-> None, related_model |-> None, remote_name |-> <<>>]

\* The kind of the field model._meta.get_field(relation) finds, None when it
\* raises FieldDoesNotExist.
FieldKind(model, relation) ==
    IF relation \in Range(get_translatable_field_names(model)) THEN "text"
    ELSE RelationField(model, relation).kind

\* ContentType.objects.get_for_model(model).id
ContentTypeId(model) ==
    IF model = "Continent" THEN 7
    ELSE IF model = "Country" THEN 8
    ELSE IF model = "City" THEN 9
    ELSE 10

\* X and Y are two in-memory copies of the continent of id 1, K is the
\* country of id 1 and F the flag of id 1.
Instances == {"X", "Y", "K", "F"}

TypeOf(obj) ==
    IF obj = "K" THEN "Country" ELSE IF obj = "F" THEN "Flag" ELSE "Continent"

IdOf(obj) == 1

\* What a relation of an instance holds once loaded: the rows of a manager, as
\* in-memory instances, or the instance a foreign key points to.
Related(obj, relation) ==
    IF obj = "X" /\ relation = countries THEN <<"K">>
    ELSE IF obj = "Y" /\ relation = countries THEN <<>>
    ELSE IF obj = "K" /\ relation = continent THEN "Y"
    ELSE IF obj = "K" /\ relation = cities THEN <<>>
    ELSE IF obj = "K" /\ relation = flag THEN "F"
    ELSE IF obj = "F" /\ relation = continent THEN "Y"
    ELSE None

\* str(obj.id)
str(n) == ToString(n)

Values == {"", "a", "b"}

Texts == Values \ {""}

(***************************************************************************)
(* Entities: what a caller passes, and what getattr(obj, relation) gives.  *)
(***************************************************************************)

Instance(obj)   == [kind |-> "instance", ref |-> obj]
Iterable(items) == [kind |-> "iterable", items |-> items]
Manager(items)  == [kind |-> "manager", items |-> items]
NotIterable     == [kind |-> "other"]
NoValue         == [kind |-> "none"]

\* A str is an iterable of its characters, none of them a model instance.
Str(value) == Iterable(IF value = "" THEN <<>> ELSE <<value>>)

\* getattr(obj, relation, None)
getattr(obj, relation) ==
    IF obj \notin Instances THEN NoValue
    ELSE LET kind == FieldKind(TypeOf(obj), relation)
         IN  IF kind = "text" THEN Str(fields[obj][relation])
             ELSE IF kind = "manager" THEN Manager(Related(obj, relation))
             ELSE IF kind = "foreignkey" /\ Related(obj, relation) # None
                  THEN Instance(Related(obj, relation))
             ELSE NoValue

_get_entity_details(entity) ==
    IF entity.kind = "instance"
    THEN [err |-> "", iterable |-> FALSE, model |-> TypeOf(entity.ref)]
    ELSE IF entity.kind = "iterable"
    THEN IF Len(entity.items) > 0
         THEN IF entity.items[1] \in Instances
              THEN [err |-> "", iterable |-> TRUE, model |-> TypeOf(entity.items[1])]
              ELSE [err |-> "InvalidEntity", iterable |-> TRUE, model |-> None]
         ELSE [err |-> "", iterable |-> TRUE, model |-> None]
    ELSE [err |-> "InvalidEntity", iterable |-> FALSE, model |-> None]

(***************************************************************************)
(* _get_reverse_relation                                                   *)
(***************************************************************************)

\* A faulty variant, for comparison: the reverse of the root is put before
\* the reverse of the branch.
RECURSIVE _get_reverse_relation_root_first(_, _)
_get_reverse_relation_root_first(model, relation) ==
    LET parts  == split(relation, LOOKUP_SEP)
        root   == parts[1]
        branch == Tail(parts)
        field  == RelationField(model, root)
    IN  IF FieldKind(model, root) = None
        THEN [err |-> "FieldDoesNotExist", value |-> <<>>]
        ELSE IF FieldKind(model, root) = "text"
        THEN [err |-> "AttributeError", value |-> <<>>]
        ELSE IF Len(branch) > 0
        THEN LET branch_reverse_relation ==
                     _get_reverse_relation_root_first(field.related_model,
                                                      join(LOOKUP_SEP, branch))
             IN  IF branch_reverse_relation.err # "" THEN branch_reverse_relation
                 ELSE [err |-> "",
                       value |-> field.remote_name \o <<"_", "_">>
                                     \o branch_reverse_relation.value]
        ELSE [err |-> "", value |-> field.remote_name]

\* get_field raises FieldDoesNotExist when the model has no such field; the
\* remote_field of a field that is not a relation is None, and None.name
\* raises AttributeError.
RECURSIVE _get_reverse_relation(_, _)
_get_reverse_relation(model, relation) ==
    LET parts  == split(relation, LOOKUP_SEP)
        root   == parts[1]
        branch == Tail(parts)
        field  == RelationField(model, root)
    IN  IF FieldKind(model, root) = None
        THEN [err |-> "FieldDoesNotExist", value |-> <<>>]
        ELSE IF FieldKind(model, root) = "text"
        THEN [err |-> "AttributeError", value |-> <<>>]
        ELSE IF Len(branch) > 0
        THEN LET branch_reverse_relation ==
                     _get_reverse_relation(field.related_model,
                                           join(LOOKUP_SEP, branch))
             IN  IF branch_reverse_relation.err # "" THEN branch_reverse_relation
                 ELSE [err |-> "",
                       value |-> branch_reverse_relation.value \o <<"_", "_">>
                                     \o field.remote_name]
        ELSE [err |-> "", value |-> field.remote_name]

(***************************************************************************)
(* _get_instance_groups.  The walk threads st = [err, groups, prefetched]: *)
(* the exception raised so far, the groups dict and the instances'         *)
(* _prefetched_objects_cache.  It also keeps a record of what it did:      *)
(* visits, the <<model, included>> of each call of _fill_entity on a value *)
(* with a model; seen, the <<obj, content type id, included>> of each call *)
(* of _fill_obj; loads, the <<obj, relation>> of each call of              *)
(* prefetch_related_objects, in order.                                     *)
(***************************************************************************)

\* A faulty registration, for comparison: an instance whose id is already
\* registered is kept apart, as
\* a list of instances would keep it.
RegisterAppend(groups, ct, obj) ==
    Put(groups, ct, Append(Get(groups, ct), <<str(IdOf(obj)), obj>>))

\* object_groups[str(obj.id)] = obj, in the bucket of content type ct
Register(groups, ct, obj) == Put(groups, ct, Put(Get(groups, ct), str(IdOf(obj)), obj))

\* F of the value of x: x, the state of the walk so far, is worked out once
\* for all its uses in F.
Given(x, F(_)) == CHOOSE y \in {F(v) : v \in {x}} : TRUE

RECURSIVE _fill_entity(_, _, _, _)
RECURSIVE FillObjs(_, _, _, _)
RECURSIVE FillRelations(_, _, _, _)

\* A faulty variant, for comparison: the instance is registered at a level
\* that is not included too.
_fill_obj_always(obj, hierarchy, ctx, st) ==
    IF obj \notin Instances
    THEN [st EXCEPT !.err = "AttributeError"]
    ELSE FillRelations(obj, hierarchy, ctx,
             [st EXCEPT !.groups = Register(SetDefault(st.groups, ctx.ct, <<>>),
                                            ctx.ct, obj),
                        !.seen = @ \cup {<<obj, ctx.ct, ctx.included>>}])

\* _fill_obj, lines 528-549: ctx = [model, ct, included] of the enclosing call.
_fill_obj(obj, hierarchy, ctx, st) ==
    IF ctx.included /\ obj \notin Instances
    THEN [st EXCEPT !.err = "AttributeError"]
    ELSE FillRelations(obj, hierarchy, ctx,
             IF ctx.included
             THEN [st EXCEPT !.groups = Register(@, ctx.ct, obj),
                             !.seen = @ \cup {<<obj, ctx.ct, TRUE>>}]
             ELSE [st EXCEPT !.seen = @ \cup {<<obj, ctx.ct, FALSE>>}])

\* A faulty variant, for comparison: the relation is loaded without a look
\* at _prefetched_objects_cache.
FillRelationsAlwaysLoad(obj, hierarchy, ctx, st) ==
    IF st.err # "" \/ Len(hierarchy) = 0 THEN st
    ELSE LET relation == hierarchy[1][1]
             detail   == hierarchy[1][2]
             value    == getattr(obj, relation)
             loaded   == IF value.kind = "manager"
                         THEN [st EXCEPT !.prefetched[obj] = @ \cup {relation},
                                         !.loads = Append(@, <<obj, relation>>)]
                         ELSE st
             after    == IF FieldKind(ctx.model, relation) = None
                         THEN [st EXCEPT !.err = "FieldDoesNotExist"]
                         ELSE IF value.kind = "none" THEN st
                         ELSE _fill_entity(
                                  IF value.kind = "manager"
                                  THEN Iterable(value.items) ELSE value,
                                  detail.relations, loaded, detail.included)
         IN  FillRelations(obj, Tail(hierarchy), ctx, after)

\* for (relation, detail) in hierarchy.items(), lines 533-549
FillRelations(obj, hierarchy, ctx, st) ==
    Given(st, LAMBDA s :
    IF s.err # "" \/ Len(hierarchy) = 0 THEN s
    ELSE LET relation == hierarchy[1][1]
             detail   == hierarchy[1][2]
             value    == getattr(obj, relation)
             loaded   == IF value.kind = "manager" /\ relation \notin s.prefetched[obj]
                         THEN [s EXCEPT !.prefetched[obj] = @ \cup {relation},
                                        !.loads = Append(@, <<obj, relation>>)]
                         ELSE s
             after    == IF FieldKind(ctx.model, relation) = None
                         THEN [s EXCEPT !.err = "FieldDoesNotExist"]
                         ELSE IF value.kind = "none" THEN s
                         ELSE _fill_entity(
                                  IF value.kind = "manager"
                                  THEN Iterable(value.items) ELSE value,
                                  detail.relations, loaded, detail.included)
         IN  FillRelations(obj, Tail(hierarchy), ctx, after))

\* for obj in entity, lines 551-555
FillObjs(objs, hierarchy, ctx, st) ==
    Given(st, LAMBDA s :
    IF s.err # "" \/ Len(objs) = 0 THEN s
    ELSE FillObjs(Tail(objs), hierarchy, ctx, _fill_obj(objs[1], hierarchy, ctx, s)))

\* A faulty variant, for comparison: the model is required to be
\* Translatable at a level that is not included too.
_fill_entity_checking_all(entity, hierarchy, st, included) ==
    LET details == _get_entity_details(entity)
        model   == details.model
    IN  IF details.err # "" THEN [st EXCEPT !.err = details.err]
        ELSE IF model = None THEN st
        ELSE LET ct  == ContentTypeId(model)
                 ctx == [model |-> model, ct |-> ct, included |-> included]
                 st1 == IF included
                        THEN [st EXCEPT !.visits = @ \cup {<<model, included>>},
                                        !.groups = SetDefault(@, ct, <<>>)]
                        ELSE [st EXCEPT !.visits = @ \cup {<<model, included>>}]
             IN  IF ~Translatable(model)
                 THEN [st1 EXCEPT !.err = "NotTranslatable"]
                 ELSE FillObjs(IF details.iterable THEN entity.items
                               ELSE <<entity.ref>>,
                               hierarchy, ctx, st1)

_fill_entity(entity, hierarchy, st, included) ==
    LET details == _get_entity_details(entity)
        model   == details.model
    IN  IF details.err # "" THEN [st EXCEPT !.err = details.err]
        ELSE IF model = None THEN st
        ELSE LET ct  == ContentTypeId(model)
                 ctx == [model |-> model, ct |-> ct, included |-> included]
                 st1 == IF included
                        THEN [st EXCEPT !.visits = @ \cup {<<model, included>>},
                                        !.groups = SetDefault(@, ct, <<>>)]
                        ELSE [st EXCEPT !.visits = @ \cup {<<model, included>>}]
             IN  IF included /\ ~Translatable(model)
                 THEN [st1 EXCEPT !.err = "NotTranslatable"]
                 ELSE FillObjs(IF details.iterable THEN entity.items
                               ELSE <<entity.ref>>,
                               hierarchy, ctx, st1)

_get_instance_groups(entity, hierarchy) ==
    _fill_entity(entity, hierarchy,
                 [err |-> "", groups |-> <<>>, prefetched |-> prefetched,
                  visits |-> {}, seen |-> {}, loads |-> <<>>], TRUE)

(***************************************************************************)
(* The Translation table and _get_translations.  The table is a bag of     *)
(* rows: nothing in this code or in the calls it makes keeps two rows from *)
(* having the same content type, object id, field and language.            *)
(***************************************************************************)

Row(ct, oid, field, lang, text) ==
    [content_type_id |-> ct, object_id |-> oid, field |-> field,
     language |-> lang, text |-> text]

KeyOf(row) == <<row.content_type_id, row.object_id, row.field, row.language>>

\* filters |= Q(content_type__id=ct_id, object_id=obj_id), lines 639-645:
\* the set of the terms of the disjunction.
Filters(groups) ==
    UNION {{<<groups[i][1], groups[i][2][j][1]>> : j \in DOMAIN groups[i][2]} :
              i \in DOMAIN groups}

\* The queryset of lines 647-651; it is evaluated when it is iterated or
\* deleted, not here.
_get_translations(groups, lang) ==
    LET standard == _get_standard_language(lang)
    IN  [err |-> standard.err, language |-> standard.value,
         filters |-> Filters(groups)]

\* A faulty variant, for comparison: the language is not filtered on.
MatchesAnyLanguage(query, row) ==
    \/ query.filters = {}
    \/ <<row.content_type_id, row.object_id>> \in query.filters

\* .filter(language=lang).filter(filters): Django adds no condition for a Q()
\* without terms, so the second filter then keeps every row.
Matches(query, row) ==
    /\ row.language = query.language
    /\ \/ query.filters = {}
       \/ <<row.content_type_id, row.object_id>> \in query.filters

\* The rows a queryset selects in table.
Select(query, table) == {row \in DOMAIN table : Matches(query, row)}

\* queryset.delete()
Delete(query, table) ==
    [row \in (DOMAIN table) \ Select(query, table) |-> table[row]]

RECURSIVE Concat(_)
Concat(seqs) == IF Len(seqs) = 0 THEN <<>> ELSE seqs[1] \o Concat(Tail(seqs))

SeqToBag(s) == [row \in Range(s) |-> Cardinality({i \in DOMAIN s : s[i] = row})]

\* Translation.objects.bulk_create(rows)
BulkCreate(rows, table) == table (+) SeqToBag(rows)

(***************************************************************************)
(* apply_translations                                                      *)
(***************************************************************************)

\* The instance a fetched row belongs to, line 815.
Owner(groups, row) == Get(Get(groups, row.content_type_id), row.object_id)

HasOwner(groups, row) ==
    /\ HasKey(groups, row.content_type_id)
    /\ HasKey(Get(groups, row.content_type_id), row.object_id)

\* The rows the loop of lines 812-821 sets on field f of instance obj.
RowsFor(groups, rows, obj, f) ==
    {row \in rows : /\ Owner(groups, row) = obj
                    /\ row.field = f
                    /\ f \in Range(get_translatable_field_names(TypeOf(obj)))}

\* The field values the loop can leave: the table gives its rows in no
\* stated order, and the last row set on a field stays.
Applied(groups, rows) ==
    LET targets == {t \in Instances \X {name, denonym} :
                        RowsFor(groups, rows, t[1], t[2]) # {}}
        choices == {c \in [targets -> Texts] :
                        \A t \in targets :
                            \E row \in RowsFor(groups, rows, t[1], t[2]) :
                                row.text = c[t]}
    IN  {[obj \in Instances |->
            [f \in DOMAIN fields[obj] |->
                IF <<obj, f>> \in targets THEN c[<<obj, f>>] ELSE fields[obj][f]]] :
         c \in choices}

\* Lines 808-810 and what the loop of lines 812-821 meets: the exception
\* raised if any, the groups, the queryset and the rows it gives.
ApplyCall(entity, relations, lang) ==
    Given(_get_instance_groups(entity, _get_relations_hierarchy(relations)),
          LAMBDA walk :
    LET query     == _get_translations(walk.groups, lang)
        rows      == Select(query, store)
        err       == IF walk.err # "" THEN walk.err
                     ELSE IF query.err # "" THEN query.err
                     ELSE IF \E row \in rows : ~HasOwner(walk.groups, row)
                          THEN "KeyError"
                     ELSE ""
    IN  [err |-> err, prefetched |-> walk.prefetched, seen |-> walk.seen,
         groups  |-> IF walk.err = "" THEN walk.groups ELSE <<>>,
         fetched |-> IF walk.err = "" /\ query.err = "" THEN rows ELSE {},
         staged  |-> <<>>])

apply_translations(entity, relations, lang) ==
    \E call \in {ApplyCall(entity, relations, lang)} :
        /\ prefetched' = call.prefetched
        /\ IF call.err # "" THEN fields' = fields
           ELSE fields' \in Applied(call.groups, call.fetched)
        /\ UNCHANGED <<LANGUAGES, store>>

(***************************************************************************)
(* update_translations                                                     *)
(***************************************************************************)

\* Lines 988-999 for one instance.
NewRowsOf(ct_id, obj_id, obj, lang) ==
    LET names == get_translatable_field_names(TypeOf(obj))
    IN  Concat([k \in DOMAIN names |->
                  IF fields[obj][names[k]] # ""
                  THEN <<Row(ct_id, obj_id, names[k], lang, fields[obj][names[k]])>>
                  ELSE <<>>])

\* new_translations, lines 985-999
NewTranslations(groups, lang) ==
    Concat([i \in DOMAIN groups |->
              Concat([j \in DOMAIN groups[i][2] |->
                        NewRowsOf(groups[i][1], groups[i][2][j][1],
                                  groups[i][2][j][2], lang)])])

\* A faulty variant, for comparison: only the rows that are staged again are deleted (a merge).
ReplaceMerging(query, staged, table) ==
    BulkCreate(staged,
        [row \in {r \in DOMAIN table :
                    ~(Matches(query, r) /\ \E i \in DOMAIN staged :
                                              KeyOf(staged[i]) = KeyOf(r))}
            |-> table[row]])

\* Lines 1001-1002, both run
Replace(query, staged, table) == BulkCreate(staged, Delete(query, table))

\* Lines 979-999: the exception raised if any, the groups, the queryset of
\* the old translations and new_translations.
UpdateCall(entity, relations, lang) ==
    Given(_get_instance_groups(entity, _get_relations_hierarchy(relations)),
          LAMBDA walk :
    LET standard  == _get_standard_language(lang)
        ok        == standard.err = "" /\ walk.err = ""
        query     == _get_translations(walk.groups, standard.value)
    IN  [err |-> IF standard.err # "" THEN standard.err ELSE walk.err,
         prefetched |-> IF standard.err # "" THEN prefetched ELSE walk.prefetched,
         seen    |-> IF standard.err # "" THEN {} ELSE walk.seen,
         groups  |-> IF ok THEN walk.groups ELSE <<>>,
         query   |-> query,
         fetched |-> IF ok THEN Select(query, store) ELSE {},
         staged  |-> IF ok THEN NewTranslations(walk.groups, standard.value)
                     ELSE <<>>])

\* A faulty variant, for comparison: the old rows of the instances
\* registered so far are deleted before the exception leaves the call.
update_translations_deleting_first(entity, relations, lang, bulk_create_fails) ==
    LET call == UpdateCall(entity, relations, lang)
        walk == _get_instance_groups(entity, _get_relations_hierarchy(relations))
    IN  /\ bulk_create_fails => call.err = "" /\ Len(call.staged) > 0
        /\ prefetched' = call.prefetched
        /\ store' = IF call.err # ""
                    THEN Delete(_get_translations(walk.groups, lang), store)
                    ELSE IF bulk_create_fails THEN Delete(call.query, store)
                    ELSE Replace(call.query, call.staged, store)
        /\ UNCHANGED <<LANGUAGES, fields>>

\* bulk_create_fails: the database refuses the INSERT of line 1002 (there is
\* none to refuse when nothing is staged).
update_translations(entity, relations, lang, bulk_create_fails) ==
    \E call \in {UpdateCall(entity, relations, lang)} :
        /\ bulk_create_fails => call.err = "" /\ Len(call.staged) > 0
        /\ prefetched' = call.prefetched
        /\ store' = IF call.err # "" THEN store
                    ELSE IF bulk_create_fails THEN Delete(call.query, store)
                    ELSE Replace(call.query, call.staged, store)
        /\ UNCHANGED <<LANGUAGES, fields>>

(***************************************************************************)
(* The calls: from any state of the table and of the instances, one call   *)
(* of apply_translations or update_translations.                           *)
(***************************************************************************)

countries__continent == countries \o LOOKUP_SEP \o continent

Entities ==
    {Instance("X"), Instance("Y"), Instance("K"), Instance("F"), Iterable(<<>>),
     Iterable(<<"X", "Y">>), Iterable(<<"K", "X">>), NotIterable}

RelationLists == {<<>>, <<countries>>, <<countries__continent>>, <<bogus>>}

Langs == {en_gb, en_us, de}

\* The table holds at most MaxInitRows rows when the call is made.
MaxInitRows == 2

AllRows ==
    {Row(ContentTypeId(m), str(1), f, l, t) :
        m \in {"Continent", "Country"}, f \in {name, denonym}, l \in {en, en_gb},
        t \in Texts}

InitRows == {row \in AllRows : row.field \in
                Range(get_translatable_field_names(
                    IF row.content_type_id = ContentTypeId("Continent")
                    THEN "Continent" ELSE "Country"))}

\* At most one row per (content type, object id, field, language).
Unique(table) ==
    /\ \A row \in DOMAIN table : table[row] = 1
    /\ \A r1, r2 \in DOMAIN table : KeyOf(r1) = KeyOf(r2) => r1 = r2

InitStores ==
    {SetToBag(rows) : rows \in {rs \in SUBSET InitRows :
                                   /\ Cardinality(rs) <= MaxInitRows
                                   /\ Unique(SetToBag(rs))}}

\* The field values an instance may have when the call is made, as
\* <<name, denonym>> (a Country has no denonym).
Profiles(obj) ==
    IF obj = "X" THEN {<<"a", "">>, <<"", "b">>}
    ELSE IF obj = "Y" THEN {<<"b", "a">>, <<"", "b">>}
    ELSE IF obj = "K" THEN {<<"a", "">>, <<"", "">>}
    ELSE {<<"", "">>}

InitFields ==
    {[obj \in Instances |->
        IF TypeOf(obj) = "Continent"
        THEN (name :> pick[obj][1]) @@ (denonym :> pick[obj][2])
        ELSE [f \in Range(get_translatable_field_names(TypeOf(obj))) |->
                 pick[obj][1]]] :
     pick \in {p \in [Instances -> UNION {Profiles(obj) : obj \in Instances}] :
                  \A obj \in Instances : p[obj] \in Profiles(obj)}}

InitPrefetched ==
    {[obj \in Instances |-> {}],
     [obj \in Instances |-> IF TypeOf(obj) = "Continent" THEN {countries} ELSE {}]}

NoCalls == <<>>

Init ==
    /\ LANGUAGES = <<en, en_gb>>
    /\ store \in InitStores
    /\ fields \in InitFields
    /\ prefetched \in InitPrefetched
    /\ calls = NoCalls
    /\ finished = <<>>
    /\ last = [op |-> "init"]

\* What a call records of itself.
Called(op, entity, relations, lang, err, call) ==
    [op |-> op, entity |-> entity, relations |-> relations, lang |-> lang,
     err |-> err, groups |-> call.groups, seen |-> call.seen,
     fetched |-> call.fetched,
     staged |-> call.staged,
     store0 |-> store, fields0 |-> fields, prefetched0 |-> prefetched]

Apply ==
    /\ last.op = "init"
    /\ \E entity \in Entities, relations \in RelationLists, lang \in Langs :
           \E call \in {ApplyCall(entity, relations, lang)} :
               /\ apply_translations(entity, relations, lang)
               /\ last' = Called("apply", entity, relations, lang, call.err, call)
    /\ UNCHANGED <<calls, finished>>

Update ==
    /\ last.op = "init"
    /\ \E entity \in Entities, relations \in RelationLists, lang \in Langs,
          bulk_create_fails \in BOOLEAN :
           \E call \in {UpdateCall(entity, relations, lang)} :
               /\ update_translations(entity, relations, lang, bulk_create_fails)
               /\ last' = Called("update", entity, relations, lang,
                                 IF bulk_create_fails THEN "DatabaseError"
                                 ELSE call.err, call)
    /\ UNCHANGED <<calls, finished>>

Next == Apply \/ Update

Spec == Init /\ [][Next]_vars

(***************************************************************************)
(* The claims about one call (specification Spec).                         *)
(***************************************************************************)

\* The call named op has returned without raising.
Returned(op) == last.op = op /\ last.err = ""

\* The language the last call's lang normalizes to.
Normalized == _get_standard_language(last.lang).value

\* The entries of the purview mapping: <<content type id, object id, instance>>.
Purview(groups) ==
    UNION {{<<groups[i][1], groups[i][2][j][1], groups[i][2][j][2]>> :
               j \in DOMAIN groups[i][2]} : i \in DOMAIN groups}

\* The rows of a table for a content type, object id, field and language.
RowsAt(table, ct, oid, f, lang) ==
    {row \in DOMAIN table : KeyOf(row) = <<ct, oid, f, lang>>}

\* C1: when update_translations fails at the bulk insert, after the old rows
\* were deleted, the table is as it was before the call.
C1_FailClosed ==
    (last.op = "update" /\ last.err = "DatabaseError") => store = last.store0

\* C2: from a table with at most one row per (content type, object id, field,
\* language), an update_translations that runs to completion leaves a table
\* with at most one row per (content type, object id, field, language).
C2_UniqueAfterUpdate ==
    (Returned("update") /\ Unique(last.store0)) => Unique(store)

\* C2's case: a completed update of a collection that holds the same id twice,
\* replacing a row of that id.
C2_Witness ==
    /\ Returned("update")
    /\ last.entity = Iterable(<<"X", "Y">>)
    /\ \E row \in DOMAIN last.store0 : \E i \in DOMAIN last.staged :
           KeyOf(row) = KeyOf(last.staged[i]) /\ row \notin DOMAIN store
    /\ Unique(store)

\* C3: the rows _get_translations gives are exactly the rows of the
\* normalized language whose (content type, object id) is a key of the
\* purview mapping, also for a purview without instances.
C3_FetchedExactlyPurview ==
    (last.op \in {"apply", "update"} /\ last.err \in {"", "KeyError", "DatabaseError"})
        => last.fetched =
               {row \in DOMAIN last.store0 :
                   /\ row.language = Normalized
                   /\ \E p \in Purview(last.groups) :
                          p[1] = row.content_type_id /\ p[2] = row.object_id}

\* C4: apply_translations and update_translations on an empty collection, in
\* a supported language, raise nothing and change no row and no instance.
C4_EmptyCollectionSkips ==
    (/\ last.op \in {"apply", "update"}
     /\ last.entity = Iterable(<<>>)
     /\ _get_standard_language(last.lang).err = ""
     /\ last.err # "DatabaseError")
        => last.err = "" /\ store = last.store0 /\ fields = last.fields0

\* C5: after apply_translations returns, each translatable field of each
\* instance of the purview holds the text of the row of its (content type,
\* object id, field, normalized language) when there is one, and the value
\* it had before the call when there is none.
C5_ApplySetsStoredText ==
    Returned("apply") =>
        \A p \in Purview(last.groups) :
            \A f \in Range(get_translatable_field_names(TypeOf(p[3]))) :
                LET rows == RowsAt(store, p[1], p[2], f, Normalized)
                IN  IF rows # {}
                    THEN \E row \in rows : fields[p[3]][f] = row.text
                    ELSE fields[p[3]][f] = last.fields0[p[3]][f]

\* C5's case: an apply that set a field from its row while the table held a
\* row of the other language for another field of the same instance, which
\* kept its value.
C5_Witness ==
    /\ Returned("apply")
    /\ \E p \in Purview(last.groups) :
           /\ \E row \in RowsAt(store, p[1], p[2], name, Normalized) :
                  fields[p[3]][name] = row.text /\ last.fields0[p[3]][name] # row.text
    /\ \E p \in Purview(last.groups) :
           \E f \in Range(get_translatable_field_names(TypeOf(p[3]))) :
               /\ RowsAt(store, p[1], p[2], f, Normalized) = {}
               /\ \E row \in DOMAIN store :
                      /\ row.content_type_id = p[1] /\ row.object_id = p[2]
                      /\ row.field = f /\ row.language # Normalized
                      /\ row.text # fields[p[3]][f]
               /\ fields[p[3]][f] = last.fields0[p[3]][f]

\* C7: after update_translations completes, the table holds no row of the
\* normalized language for a translatable field of an instance of the
\* purview whose value is falsy.
C7_FalsyFieldHasNoRow ==
    Returned("update") =>
        \A p \in Purview(last.groups) :
            \A f \in Range(get_translatable_field_names(TypeOf(p[3]))) :
                fields[p[3]][f] = "" =>
                    RowsAt(store, p[1], p[2], f, Normalized) = {}

\* C7's case: a completed update of an instance with an empty field that
\* had a row before the call.
C7_Witness ==
    /\ Returned("update")
    /\ \E p \in Purview(last.groups) :
           \E f \in Range(get_translatable_field_names(TypeOf(p[3]))) :
               /\ fields[p[3]][f] = ""
               /\ RowsAt(last.store0, p[1], p[2], f, Normalized) # {}
               /\ RowsAt(store, p[1], p[2], f, Normalized) = {}

\* The entity is a model instance or a collection of model instances of one
\* model.
ValidEntity(entity) ==
    \/ entity.kind = "instance"
    \/ /\ entity.kind = "iterable"
       /\ \A i \in DOMAIN entity.items :
              /\ entity.items[i] \in Instances
              /\ TypeOf(entity.items[i]) = TypeOf(entity.items[1])

\* C13: apply_translations and update_translations, which build a purview
\* of the entity, raise InvalidEntity (TypeError) for an entity that is
\* neither an instance nor a collection of instances of one model, also when
\* the first element of the collection is an instance.
C13_InvalidEntityRaised ==
    (/\ last.op \in {"apply", "update"}
     /\ ~ValidEntity(last.entity)
     /\ _get_standard_language(last.lang).err = "")
        => last.err = "InvalidEntity"

\* The exceptions of the language, the entity, the model and the relation.
FailFastErrors == {"ValueError", "InvalidEntity", "NotTranslatable", "FieldDoesNotExist"}

\* C14: when apply_translations or update_translations raises for the
\* language, the entity, a model that is not Translatable or an unknown
\* relation, every row of the table and every field value of every instance
\* is as before the call.
C14_FailFastNoEffect ==
    (last.op \in {"apply", "update"} /\ last.err \in FailFastErrors)
        => store = last.store0 /\ fields = last.fields0

\* C14's case: an update that registered X and then met an unknown
\* relation, while the table held a row of X in the language
\* of the call that the update would have deleted.
C14_Witness ==
    /\ last.op = "update" /\ last.err = "FieldDoesNotExist"
    /\ last.entity = Instance("X")
    /\ \E s \in last.seen : s[1] = "X" /\ s[3]
    /\ \E row \in DOMAIN store :
           /\ row.content_type_id = ContentTypeId("Continent")
           /\ row.language = Normalized
           /\ row.text # fields["X"][row.field]
    /\ store = last.store0 /\ fields = last.fields0

\* The number of copies of a row in a table.
Copies(table, row) == IF row \in DOMAIN table THEN table[row] ELSE 0

\* The (content type id, object id) of the instances the walk met at an
\* included level.
IncludedKeys(seen) == {<<s[2], str(IdOf(s[1]))>> : s \in {t \in seen : t[3]}}

\* C17: update_translations on an instance or a non-empty collection
\* creates, deletes and changes only rows of the normalized language whose
\* (content type, object id) is that of an instance met at an included level;
\* every other row is unchanged, and no field value of an instance changes.
C17_UpdateFrame ==
    (/\ last.op = "update"
     /\ last.entity.kind \in {"instance", "iterable"}
     /\ last.entity # Iterable(<<>>))
        => /\ fields = last.fields0
           /\ \A row \in DOMAIN store \cup DOMAIN last.store0 :
                  Copies(store, row) # Copies(last.store0, row)
                      => /\ row.language = Normalized
                         /\ <<row.content_type_id, row.object_id>>
                                \in IncludedKeys(last.seen)

\* C17's case: a completed update of X along countries__continent, which
\* passes through the country K: a row of K in the language of the call and
\* a row of the continent in another language are kept, and the rows of the
\* continent in the language of the call are replaced.
C17_Witness ==
    /\ Returned("update")
    /\ last.entity = Instance("X") /\ last.relations = <<countries__continent>>
    /\ \E s \in last.seen : s[1] = "K" /\ ~s[3]
    /\ \E row \in DOMAIN last.store0 :
           /\ row.content_type_id = ContentTypeId("Country")
           /\ row.language = Normalized
           /\ row \in DOMAIN store
    /\ \E row \in DOMAIN last.store0 :
           /\ row.content_type_id = ContentTypeId("Continent")
           /\ row.language # Normalized
           /\ row \in DOMAIN store
    /\ \E row \in DOMAIN store : row \notin DOMAIN last.store0

\* C18: after apply_translations returns, every instance the walk met at an
\* included level holds, in each translatable field that has a row of its
\* (content type, object id) in the normalized language, the text of that
\* row; also when two in-memory instances of the same model and id are met.
C18_EveryVisitedInstanceApplied ==
    Returned("apply") =>
        \A s \in {t \in last.seen : t[3]} :
            \A f \in Range(get_translatable_field_names(TypeOf(s[1]))) :
                LET rows == RowsAt(store, s[2], str(IdOf(s[1])), f, Normalized)
                IN  rows # {} => \E row \in rows : fields[s[1]][f] = row.text

(***************************************************************************)
(* _get_standard_language on every registry and tag (specification         *)
(* SpecLang).                                                              *)
(***************************************************************************)

MaxTagLen == 3

MaxRegistryLen == 2

TagChars == {"e", "-"}

Tags == StringsOver(TagChars, 1, MaxTagLen)

\* No row, no field value, no call.
Idle ==
    /\ store = EmptyBag
    /\ fields = [obj \in Instances |->
                    [f \in Range(get_translatable_field_names(TypeOf(obj))) |-> ""]]
    /\ prefetched = [obj \in Instances |-> {}]
    /\ calls = NoCalls
    /\ finished = <<>>
    /\ last = [op |-> "init"]

InitLang == LANGUAGES \in ListsOver(Tags, MaxRegistryLen) /\ Idle

Normalize ==
    /\ last.op = "init"
    /\ \E lang \in Tags :
           last' = [op |-> "_get_standard_language", lang |-> lang,
                    result |-> _get_standard_language(lang)]
    /\ UNCHANGED <<LANGUAGES, store, fields, prefetched, calls, finished>>

SpecLang == InitLang /\ [][Normalize]_vars

\* The part of a tag before its first "-".
BaseCode(tag) ==
    LET dashes == {i \in DOMAIN tag : tag[i] = "-"}
    IN  SubSeq(tag, 1, IF dashes = {} THEN Len(tag)
                       ELSE (CHOOSE i \in dashes : \A j \in dashes : i <= j) - 1)

\* C9: _get_standard_language returns the tag when it is registered, else
\* its base code when that is registered, else raises ValueError.
C9_StandardLanguage ==
    last.op = "_get_standard_language" =>
        IF last.lang \in Range(LANGUAGES)
        THEN last.result = [err |-> "", value |-> last.lang]
        ELSE IF BaseCode(last.lang) \in Range(LANGUAGES)
        THEN last.result = [err |-> "", value |-> BaseCode(last.lang)]
        ELSE last.result.err = "ValueError"

\* C9's case: the tag is registered after its base code, and is returned.
C9_Witness ==
    /\ last.op = "_get_standard_language"
    /\ \E i, j \in DOMAIN LANGUAGES :
           /\ i < j
           /\ LANGUAGES[i] = BaseCode(last.lang)
           /\ LANGUAGES[j] = last.lang
           /\ LANGUAGES[i] # LANGUAGES[j]
    /\ last.result = [err |-> "", value |-> last.lang]

(***************************************************************************)
(* _get_relations_hierarchy on every list of relations (specification      *)
(* SpecHier).                                                              *)
(***************************************************************************)

MaxRelLen == 4

MaxPaths == 2

RelChars == {"a", "_"}

RelationStrings == StringsOver(RelChars, 0, MaxRelLen)

InitHier == LANGUAGES = <<en, en_gb>> /\ Idle

BuildHierarchy ==
    /\ last.op = "init"
    /\ \E relations \in ListsOver(RelationStrings, MaxPaths) :
           last' = [op |-> "_get_relations_hierarchy", relations |-> relations,
                    hierarchy |-> _get_relations_hierarchy(relations)]
    /\ UNCHANGED <<LANGUAGES, store, fields, prefetched, calls, finished>>

SpecHier == InitHier /\ [][BuildHierarchy]_vars

\* The paths, as sequences of names from the root, of the nodes of a tree.
RECURSIVE NodePaths(_)
NodePaths(hierarchy) ==
    UNION {{<<hierarchy[i][1]>>} \cup
           {<<hierarchy[i][1]>> \o path : path \in NodePaths(hierarchy[i][2].relations)} :
           i \in DOMAIN hierarchy}

\* No name occurs twice among the children of a node.
RECURSIVE NoNodeTwice(_)
NoNodeTwice(hierarchy) ==
    /\ \A i, j \in DOMAIN hierarchy : hierarchy[i][1] = hierarchy[j][1] => i = j
    /\ \A i \in DOMAIN hierarchy : NoNodeTwice(hierarchy[i][2].relations)

\* The node at a path.
RECURSIVE NodeAt(_, _)
NodeAt(hierarchy, path) ==
    IF Len(path) = 1 THEN Get(hierarchy, path[1])
    ELSE NodeAt(Get(hierarchy, path[1]).relations, Tail(path))

\* The non-empty prefixes of the relations, as sequences of names.
Prefixes(relations) ==
    UNION {{SubSeq(split(relations[i], LOOKUP_SEP), 1, k) :
               k \in 1..Len(split(relations[i], LOOKUP_SEP))} :
           i \in DOMAIN relations}

\* C10: the hierarchy has exactly one node per distinct non-empty prefix of
\* a relation, and a node is included if and only if its path from the root
\* is one of the relations; without relations it is empty.
C10_HierarchyShape ==
    last.op = "_get_relations_hierarchy" =>
        /\ NoNodeTwice(last.hierarchy)
        /\ NodePaths(last.hierarchy) = Prefixes(last.relations)
        /\ \A path \in NodePaths(last.hierarchy) :
               NodeAt(last.hierarchy, path).included
                   <=> join(LOOKUP_SEP, path) \in Range(last.relations)
        /\ last.relations = <<>> => last.hierarchy = <<>>

\* C10's case: a two-level relation given before its own first level, which
\* is then included without losing its child.
C10_Witness ==
    /\ last.op = "_get_relations_hierarchy"
    /\ Len(last.relations) = 2
    /\ Len(split(last.relations[1], LOOKUP_SEP)) = 2
    /\ split(last.relations[2], LOOKUP_SEP) = <<split(last.relations[1], LOOKUP_SEP)[1]>>
    /\ \A k \in 1..2 : split(last.relations[1], LOOKUP_SEP)[k] # <<>>
    /\ Len(last.hierarchy) = 1
    /\ last.hierarchy[1][2].included
    /\ Len(last.hierarchy[1][2].relations) = 1
    /\ last.hierarchy[1][2].relations[1][2].included

(***************************************************************************)
(* Sequences of calls (specification SpecSeq).  The history keeps, for a   *)
(* (content type, object id, field, language), the text the last completed *)
(* update_translations of that content type, object id and language        *)
(* staged, as long as no later update_translations had that content type   *)
(* and object id in its purview in that language.                          *)
(***************************************************************************)

MaxCalls == 3

SeqEntities == {Instance("X"), Instance("Y"), Instance("K"), Iterable(<<>>)}

SeqLangs == {en_gb, en_us}

InitSeq ==
    /\ LANGUAGES = <<en, en_gb>>
    /\ store = EmptyBag
    /\ fields \in InitFields
    /\ prefetched = [obj \in Instances |-> {}]
    /\ calls = NoCalls
    /\ finished = <<>>
    /\ last = [op |-> "seq", n |-> 0, written |-> <<>>, call |-> "none"]

\* The history after an update_translations whose purview and staged rows
\* are those of call; completed tells whether both statements ran.
Written(call, lang, completed) ==
    LET touched == {<<p[1], p[2]>> : p \in Purview(call.groups)}
        kept    == {k \in DOMAIN last.written :
                       ~(<<k[1], k[2]>> \in touched /\ k[4] = lang)}
        new     == IF completed THEN {KeyOf(row) : row \in Range(call.staged)}
                   ELSE {}
    IN  [k \in kept \cup new |->
            IF k \in new
            THEN (CHOOSE row \in Range(call.staged) : KeyOf(row) = k).text
            ELSE last.written[k]]

SeqUpdate ==
    /\ last.op = "seq" /\ last.n < MaxCalls
    /\ \E entity \in SeqEntities, lang \in SeqLangs, bulk_create_fails \in BOOLEAN :
           \E call \in {UpdateCall(entity, <<>>, lang)} :
               /\ update_translations(entity, <<>>, lang, bulk_create_fails)
               /\ last' = [op |-> "seq", n |-> last.n + 1, call |-> "update",
                           entity |-> entity,
                           written |->
                               IF call.err # "" THEN last.written
                               ELSE Written(call, _get_standard_language(lang).value,
                                            ~bulk_create_fails)]
    /\ UNCHANGED <<calls, finished>>

SeqApply ==
    /\ last.op = "seq" /\ last.n < MaxCalls
    /\ \E entity \in SeqEntities, lang \in SeqLangs :
           \E call \in {ApplyCall(entity, <<>>, lang)} :
               /\ apply_translations(entity, <<>>, lang)
               /\ last' = [op |-> "seq", n |-> last.n + 1, call |-> "apply",
                           written |-> last.written, entity |-> entity,
                           err |-> call.err,
                           language |-> _get_standard_language(lang).value]
    /\ UNCHANGED <<calls, finished>>

SpecSeq == InitSeq /\ [][SeqUpdate \/ SeqApply]_vars

\* C6: once update_translations(X, lang) has staged the non-empty value v of
\* field f, and no later update_translations had X's content type and id in
\* its purview in that language, apply_translations(Y, lang) on an instance
\* Y of that type and id leaves Y.f = v.
C6_RoundTrip ==
    (last.op = "seq" /\ last.call = "apply" /\ last.entity.kind = "instance") =>
        LET Y == last.entity.ref
        IN  \A f \in Range(get_translatable_field_names(TypeOf(Y))) :
                LET k == <<ContentTypeId(TypeOf(Y)), str(IdOf(Y)), f, last.language>>
                IN  k \in DOMAIN last.written =>
                        last.err = "" /\ fields[Y][f] = last.written[k]

(***************************************************************************)
(* Two concurrent callers of update_translations (specification SpecConc): *)
(* the statements of a call are steps of their own, since the code opens   *)
(* no transaction around them.                                             *)
(***************************************************************************)

Callers == {"A", "B"}

\* A updates the in-memory copy X and B the copy Y of one continent, both in
\* the same language.
InitConc ==
    /\ LANGUAGES = <<en, en_gb>>
    /\ store \in InitStores
    /\ fields \in InitFields
    /\ prefetched = [obj \in Instances |-> {}]
    /\ \E lang \in SeqLangs :
           calls = [c \in Callers |->
                      [pc |-> "start", entity |-> Instance(IF c = "A" THEN "X" ELSE "Y"),
                       lang |-> lang]]
    /\ finished = <<>>
    /\ last = [op |-> "init"]

\* Lines 979-999: the purview, the queryset of the old rows and the new rows.
Stage(c) ==
    /\ calls[c].pc = "start"
    /\ LET call == UpdateCall(calls[c].entity, <<>>, calls[c].lang)
       IN  /\ calls' = [calls EXCEPT ![c] =
                           [pc |-> IF call.err = "" THEN "staged" ELSE "raised",
                            entity |-> calls[c].entity, lang |-> calls[c].lang,
                            query |-> call.query, staged |-> call.staged]]
           /\ prefetched' = call.prefetched
    /\ UNCHANGED <<LANGUAGES, store, fields, finished, last>>

\* Line 1001
DeleteOld(c) ==
    /\ calls[c].pc = "staged"
    /\ store' = Delete(calls[c].query, store)
    /\ calls' = [calls EXCEPT ![c].pc = "deleted"]
    /\ UNCHANGED <<LANGUAGES, fields, prefetched, finished, last>>

\* Line 1002
InsertNew(c) ==
    /\ calls[c].pc = "deleted"
    /\ store' = BulkCreate(calls[c].staged, store)
    /\ calls' = [calls EXCEPT ![c].pc = "done"]
    /\ finished' = Append(finished, c)
    /\ UNCHANGED <<LANGUAGES, fields, prefetched, last>>

NextConc == \E c \in Callers : Stage(c) \/ DeleteOld(c) \/ InsertNew(c)

SpecConc == InitConc /\ [][NextConc]_vars

\* C8: when two update_translations of the same instance and language, staged
\* with different values, have both completed, the table holds for that
\* instance and language exactly the rows the call that completed last
\* staged.
C8_LastCompletedWins ==
    (/\ Len(finished) = 2
     /\ calls["A"].staged # calls["B"].staged)
        => LET winner == calls[finished[2]]
           IN  [row \in Select(winner.query, store) |-> store[row]]
                   = SeqToBag(winner.staged)

(***************************************************************************)
(* _get_instance_groups on the instances, along every list of relations    *)
(* (specification SpecWalk).                                               *)
(***************************************************************************)

flag__continent == flag \o LOOKUP_SEP \o continent

WalkEntities ==
    {Instance("X"), Instance("K"), Instance("F"), Iterable(<<>>),
     Iterable(<<"X", "Y">>), Iterable(<<"X", "X">>), Iterable(<<"K", "X">>),
     Iterable(<<"X", "F">>), Iterable(<<"X", "s">>), NotIterable}

WalkRelationLists ==
    {<<>>, <<countries>>, <<countries__continent>>,
     <<countries, countries__continent>>, <<flag>>, <<flag__continent>>,
     <<continent>>, <<name>>, <<bogus>>}

InitWalk ==
    /\ LANGUAGES = <<en, en_gb>>
    /\ store = EmptyBag
    /\ fields \in InitFields
    /\ prefetched \in InitPrefetched
    /\ calls = NoCalls
    /\ finished = <<>>
    /\ last = [op |-> "init"]

\* A call of _get_instance_groups; a relation it loads stays loaded on the
\* instance, also when the call raises later.
Walk ==
    /\ last.op = "init"
    /\ \E entity \in WalkEntities, relations \in WalkRelationLists :
           \E hierarchy \in {_get_relations_hierarchy(relations)} :
           \E walk \in {_get_instance_groups(entity, hierarchy)} :
               /\ prefetched' = walk.prefetched
               /\ last' = [op |-> "_get_instance_groups", entity |-> entity,
                           relations |-> relations, hierarchy |-> hierarchy,
                           err |-> walk.err, groups |-> walk.groups,
                           visits |-> walk.visits, seen |-> walk.seen,
                           loads |-> walk.loads, prefetched0 |-> prefetched]
    /\ UNCHANGED <<LANGUAGES, store, fields, calls, finished>>

SpecWalk == InitWalk /\ [][Walk]_vars

Walked == last.op = "_get_instance_groups"

\* C11: the mapping _get_instance_groups returns holds an instance exactly
\* when the walk met that instance at an included level, and has a bucket
\* for a content type only when the walk met a value of that model at an
\* included level.
C11_RegisteredIffIncluded ==
    (Walked /\ last.err = "") =>
        /\ \A obj \in Instances :
               (\E p \in Purview(last.groups) : p[3] = obj)
                   <=> (\E s \in last.seen : s[1] = obj /\ s[3])
        /\ \A i \in DOMAIN last.groups :
               \E v \in last.visits : ContentTypeId(v[1]) = last.groups[i][1] /\ v[2]

\* C12: the walk raises NotTranslatable exactly when it meets, at an
\* included level, a value whose model (the model of its first element) is
\* not Translatable; a model met only at levels that are not included never
\* makes it raise.
C12_NotTranslatableAtIncluded ==
    Walked =>
        (last.err = "NotTranslatable"
            <=> \E v \in last.visits : v[2] /\ ~Translatable(v[1]))

\* C12's case: the walk from the country K along flag__continent passes
\* through the flag, whose model is not Translatable, and registers the
\* continent behind it.
C12_Witness ==
    /\ Walked /\ last.err = ""
    /\ last.entity = Instance("K") /\ last.relations = <<flag__continent>>
    /\ <<"Flag", FALSE>> \in last.visits
    /\ \E p \in Purview(last.groups) : p[3] = "Y"

\* C15: the walk loads a relation of an instance only when the relation is
\* not loaded on that instance, never twice for the same instance and
\* relation, and never one that was loaded before the call.
C15_LoadAtMostOnce ==
    Walked =>
        /\ \A i \in DOMAIN last.loads :
               last.loads[i][2] \notin last.prefetched0[last.loads[i][1]]
        /\ \A i, j \in DOMAIN last.loads :
               last.loads[i] = last.loads[j] => i = j

\* C15's case: the same in-memory instance is met twice in one walk, and
\* its relation, not loaded before the call, is loaded once.
C15_Witness ==
    /\ Walked /\ last.err = ""
    /\ last.entity = Iterable(<<"X", "X">>)
    /\ last.relations = <<countries>>
    /\ last.loads = <<<<"X", countries>>>>
    /\ countries \notin last.prefetched0["X"]

(***************************************************************************)
(* _get_reverse_relation on every model and path (specification SpecRev).  *)
(***************************************************************************)

\* A path has at most MaxHops segments.
MaxHops == 3

Segments == {countries, cities, country, continent, flag, name, bogus}

Paths == UNION {[1..n -> Segments] : n \in 1..MaxHops}

Reverse ==
    /\ last.op = "init"
    /\ \E model \in Models, path \in Paths :
           LET relation == join(LOOKUP_SEP, path)
           IN  last' = [op |-> "_get_reverse_relation", model |-> model,
                        path |-> path, relation |-> relation,
                        result |-> _get_reverse_relation(model, relation)]
    /\ UNCHANGED <<LANGUAGES, store, fields, prefetched, calls, finished>>

InitRev == LANGUAGES = <<en, en_gb>> /\ Idle

SpecRev == InitRev /\ [][Reverse]_vars

\* Every hop of the path is a relation of the model the hops before it lead to.
RECURSIVE IsRelationPath(_, _)
IsRelationPath(model, path) ==
    \/ Len(path) = 0
    \/ /\ RelationField(model, path[1]).kind \in {"manager", "foreignkey"}
       /\ IsRelationPath(RelationField(model, path[1]).related_model, Tail(path))

\* The declared inverse names of the hops, last hop first.
RECURSIVE Inverses(_, _)
Inverses(model, path) ==
    IF Len(path) = 0 THEN <<>>
    ELSE Inverses(RelationField(model, path[1]).related_model, Tail(path))
             \o <<RelationField(model, path[1]).remote_name>>

\* C16: for a relation path r1__..__rn of a model, _get_reverse_relation
\* returns the declared inverse names of the hops, last hop first, joined
\* by __, each hop resolved on the model the hops before it lead to; the
\* result has as many segments as the path.
C16_ReverseRelation ==
    (last.op = "_get_reverse_relation" /\ IsRelationPath(last.model, last.path))
        => /\ last.result.err = ""
           /\ last.result.value = join(LOOKUP_SEP, Inverses(last.model, last.path))
           /\ Len(split(last.result.value, LOOKUP_SEP)) = Len(last.path)

\* C16's case: countries__cities on Continent gives country__continent.
C16_Witness ==
    /\ last.op = "_get_reverse_relation"
    /\ last.model = "Continent"
    /\ last.relation = countries \o LOOKUP_SEP \o cities
    /\ last.result = [err |-> "", value |-> country \o LOOKUP_SEP \o continent]

====
